---- MODULE Spec2Model ----
(***************************************************************************)
(* Missal 1962: the calendar assembler of missal1962/missal.py.            *)
(*                                                                         *)
(* A Missal is an OrderedDict from dates to lists of LiturgicalDay.  Dates *)
(* are proleptic Gregorian ordinals (date.toordinal()), timedelta(days=n)  *)
(* is the integer n, weekday() is Monday = 0 .. Sunday = 6.                *)
(***************************************************************************)
EXTENDS Integers, Sequences, FiniteSets, TLC

VARIABLES year, catalog, pc, missal, before, call, ncalls

vars == <<year, catalog, pc, missal, before, call, ncalls>>

\* ------------------------------------------------------------------ bounds
MinYear == 2000
MaxYear == 2027
MaxCalls == 2

Years == MinYear..MaxYear

\* ------------------------------------------------------- datetime.date
isleap(y) == (y % 4 = 0 /\ y % 100 # 0) \/ y % 400 = 0

DaysInMonth(y, m) ==
    IF m = 2 THEN (IF isleap(y) THEN 29 ELSE 28)
    ELSE IF m \in {4, 6, 9, 11} THEN 30 ELSE 31

RECURSIVE DaysBeforeMonth(_, _)
DaysBeforeMonth(y, m) ==
    IF m = 1 THEN 0 ELSE DaysBeforeMonth(y, m - 1) + DaysInMonth(y, m - 1)

DaysBeforeYear(y) ==
    (y - 1) * 365 + ((y - 1) \div 4) - ((y - 1) \div 100) + ((y - 1) \div 400)

\* date(y, m, d) as its ordinal
date(y, m, d) == DaysBeforeYear(y) + DaysBeforeMonth(y, m) + d

weekday(d) == (d + 6) % 7

\* d.year
YearOf(d) ==
    CHOOSE y \in (d \div 366)..(d \div 365 + 1) :
        date(y, 1, 1) <= d /\ d < date(y + 1, 1, 1)

\* d.month
MonthOf(d) ==
    LET y == YearOf(d)
    IN CHOOSE m \in 1..12 :
        date(y, m, 1) <= d /\ d < date(y, m, 1) + DaysInMonth(y, m)

\* d.day
DayOf(d) == d - date(YearOf(d), MonthOf(d), 1) + 1

\* None: no date has ordinal 0
None == 0

\* ------------------------------------------------------ OrderedDict
\* keys in insertion order, val the mapping
EmptyDict == [keys |-> <<>>, val |-> [d \in {} |-> <<>>]]

HasKey(self, k) == k \in DOMAIN self.val

\* self[k] = v : a new key goes to the end, an existing key keeps its place
SetItem(self, k, v) ==
    IF HasKey(self, k)
    THEN [self EXCEPT !.val[k] = v]
    ELSE [keys |-> Append(self.keys, k),
          val  |-> (k :> v) @@ self.val]

\* self[k] of a key that is present
GetItem(self, k) == self.val[k]

\* ------------------------------------------------ _build_empty_missal
\* one test of the while condition and, when it holds, one run of its body
BuildStep(st, y) ==
    IF st.go /\ YearOf(st.day) = y
    THEN [self |-> SetItem(st.self, st.day, <<>>), day |-> st.day + 1, go |-> TRUE]
    ELSE [st EXCEPT !.go = FALSE]

\* iterations lo..hi of the while loop, in order; nothing runs once it has left
RECURSIVE BuildLoop(_, _, _, _)
BuildLoop(st, lo, hi, y) ==
    IF lo > hi THEN st
    ELSE IF lo = hi THEN BuildStep(st, y)
    ELSE LET mid == (lo + hi) \div 2
             left == BuildLoop(st, lo, mid, y)
         IN IF left.go THEN BuildLoop(left, mid + 1, hi, y) ELSE left

\* the loop leaves within a year's length of iterations
_build_empty_missal(self, y) ==
    BuildLoop([self |-> self, day |-> date(y, 1, 1), go |-> TRUE],
              0, date(y + 1, 1, 1) - date(y, 1, 1), y).self

\* --------------------------------------------- identifiers and catalogs
\* A day identifier 'var:dom_adventus_2:1' is its tokens <<"var",
\* "dom_adventus", "2">> and its rank 1.
Var(name, n, rank) == [id |-> <<"var", name, ToString(n)>>, rank |-> rank]
Fix(mm, dd, name, rank) == [id |-> <<"fix", mm, dd, name>>, rank |-> rank]

\* models.LiturgicalDay(day_id, day): identifier, rank, bound date
LiturgicalDay(day_id, day) ==
    [id |-> day_id.id, rank |-> day_id.rank, day |-> day]

Catalogs == {"plain", "rich"}

\* six weeks after Epiphany, Holy Family Sunday first
VARDAYS__POST_EPIPHANIA(c) ==
    [i \in 1..42 |->
        << IF i = 1 THEN Var("dom_sanctae_familiae", 1, 2)
           ELSE IF (i - 1) % 7 = 0
                THEN Var("dom_post_epiphania", (i - 1) \div 7 + 1, 2)
                ELSE Var("feria_post_epiphania", i, 4) >>]

\* Septuagesima .. the week of the 23rd Sunday after Pentecost; Easter is
\* the Sunday 63 days in
VARDAYS__RESSURECTIONIS(c) ==
    [i \in 1..280 |->
        << IF i = 64 THEN Var("dom_ressurectionis", 1, 1)
           ELSE IF (i - 1) % 7 = 0
                THEN Var("dom_ressurectionis_cycle", (i - 1) \div 7 + 1, 2)
                ELSE Var("feria_ressurectionis_cycle", i, 4) >>]

VARDAYS__HEBD_POST_PENTECOST_24(c) ==
    [i \in 1..7 |->
        << IF i = 1 THEN Var("dom_post_pentecost_24", 1, 2)
           ELSE Var("feria_post_pentecost_24", i, 4) >>]

\* four weeks of Advent
VARDAYS__ADVENT(c) ==
    [i \in 1..28 |->
        << IF (i - 1) % 7 = 0
           THEN Var("dom_adventus", (i - 1) \div 7 + 1, 1)
           ELSE Var("feria_adventus", i, 3) >>]

VARDAYS__SANCTISSIMI_NOMINIS_JESU(c) ==
    << <<Var("sanctissimi_nominis_jesu", 1, 2)>> >>

\* Ember Wednesday, Friday and Saturday: no entry for the Thursday.  The rich
\* catalog lists two identifiers for the Wednesday, lower rank number first.
VARDAYS__QUATTOUR_SEPTEMBRIS(c) ==
    << IF c = "rich"
       THEN <<Var("f4_quattuor_septembris", 1, 2), Var("f4_hebd", 1, 4)>>
       ELSE <<Var("f4_quattuor_septembris", 1, 2)>>,
       <<>>,
       <<Var("f6_quattuor_septembris", 1, 2)>>,
       <<Var("sab_quattuor_septembris", 1, 2)>> >>

VARDAYS__JESU_CHRISTI_REGIS(c) == << <<Var("jesu_christi_regis", 1, 1)>> >>

VARDAYS__DOM_OCTAVAM_NATIVITATIS(c) ==
    << <<Var("dom_octavam_nativitatis", 1, 2)>> >>

FIX_12_08_CONCEPTIONE_IMMACULATA_BMV ==
    <<"fix", "12", "08", "conceptione_immaculata_bmv">>
FIX_11_02_OMNIUM_FIDELIUM_DEFUNCTORUM ==
    Fix("11", "02", "omnium_fidelium_defunctorum", 1)
FIX_02_24_MATTHIAE_APOSTOLI == Fix("02", "24", "matthiae_apostoli", 2)
FIX_02_27_1 == Fix("02", "27", "1", 3)

\* the fixed-date table.  The rich catalog has a date with two entries of one
\* rank, a repeated entry, and a second entry on December 8.
FIXDAYS(c) ==
    << Fix("01", "14", "1", 3),
       Fix("05", "03", "mariae_reginae_poloniae", 1),
       Fix("11", "01", "omnium_sanctorum", 1),
       [id |-> FIX_12_08_CONCEPTIONE_IMMACULATA_BMV, rank |-> 1],
       Fix("12", "25", "nativitatis_domini", 1) >>
    \o (IF c = "rich"
        THEN << Fix("01", "14", "2", 3),
                Fix("05", "03", "mariae_reginae_poloniae", 1),
                Fix("06", "29", "petri", 1),
                Fix("06", "29", "pauli", 1),
                Fix("12", "08", "2", 4) >>
        ELSE <<>>)

\* ---------------------------------------------------- list.sort(reverse=True)
\* stable: entries of one rank keep their order
RECURSIVE sort_reverse(_)
sort_reverse(l) ==
    IF Len(l) <= 1 THEN l
    ELSE LET x == l[Len(l)]
             s == sort_reverse(SubSeq(l, 1, Len(l) - 1))
             k == Cardinality({i \in 1..Len(s) : s[i].rank >= x.rank})
         IN SubSeq(s, 1, k) \o <<x>> \o SubSeq(s, k + 1, Len(s))

\* ------------------------------------------------------- _insert_block
reversed(block) == [i \in 1..Len(block) |-> block[Len(block) + 1 - i]]

\* stop_date == self[...]: a date (or None) against a list, never equal
date_eq_list(d, l) == FALSE

\* InsertStep with a lookup of self[index] that does not raise (self.get)
InsertStep_NoKeyError(st, ii, start_date, block, stop_date, reverse, overwrite) ==
    LET day_ids == block[ii + 1]
        index == start_date + (IF ~reverse THEN ii ELSE 0 - ii)
    IN IF ~st.go THEN st
       ELSE IF day_ids = <<>> THEN st
       ELSE IF HasKey(st.self, index) /\ GetItem(st.self, index) # <<>> /\ ~overwrite
            THEN [st EXCEPT !.go = FALSE]
       ELSE IF ~HasKey(st.self, index - 1)
            THEN [st EXCEPT !.go = FALSE, !.raised = TRUE]
       ELSE [st EXCEPT !.self =
                SetItem(st.self, index,
                        [k \in 1..Len(day_ids) |-> LiturgicalDay(day_ids[k], index)])]

\* InsertStep without the break on a non-empty day
InsertStep_AlwaysOverwrite(st, ii, start_date, block, stop_date, reverse, overwrite) ==
    LET day_ids == block[ii + 1]
        index == start_date + (IF ~reverse THEN ii ELSE 0 - ii)
    IN IF ~st.go THEN st
       ELSE IF day_ids = <<>> THEN st
       ELSE IF ~HasKey(st.self, index)
            THEN [st EXCEPT !.go = FALSE, !.raised = TRUE]
       ELSE IF ~HasKey(st.self, index - 1)
            THEN [st EXCEPT !.go = FALSE, !.raised = TRUE]
       ELSE [st EXCEPT !.self =
                SetItem(st.self, index,
                        [k \in 1..Len(day_ids) |-> LiturgicalDay(day_ids[k], index)])]

\* one pass of the for loop's body at offset ii; go is off after a break or
\* a KeyError
InsertStep(st, ii, start_date, block, stop_date, reverse, overwrite) ==
    LET day_ids == block[ii + 1]
        index == start_date + (IF ~reverse THEN ii ELSE 0 - ii)
    IN IF ~st.go THEN st
       ELSE IF day_ids = <<>> THEN st
       ELSE IF ~HasKey(st.self, index)
            THEN [st EXCEPT !.go = FALSE, !.raised = TRUE]
       ELSE IF GetItem(st.self, index) # <<>> /\ ~overwrite
            THEN [st EXCEPT !.go = FALSE]
       ELSE IF ~HasKey(st.self, index - 1)
            THEN [st EXCEPT !.go = FALSE, !.raised = TRUE]
       ELSE IF date_eq_list(stop_date, GetItem(st.self, index - 1))
            THEN [st EXCEPT !.go = FALSE]
       ELSE [st EXCEPT !.self =
                SetItem(st.self, index,
                        [k \in 1..Len(day_ids) |-> LiturgicalDay(day_ids[k], index)])]

RECURSIVE InsertLoop(_, _, _, _, _, _, _, _)
InsertLoop(st, lo, hi, start_date, block, stop_date, reverse, overwrite) ==
    IF lo > hi THEN st
    ELSE IF lo = hi
         THEN InsertStep(st, lo, start_date, block, stop_date, reverse, overwrite)
    ELSE LET mid == (lo + hi) \div 2
             left == InsertLoop(st, lo, mid, start_date, block, stop_date,
                                reverse, overwrite)
         IN IF left.go
            THEN InsertLoop(left, mid + 1, hi, start_date, block, stop_date,
                            reverse, overwrite)
            ELSE left

\* the dict after the call, and whether the call raised KeyError
_insert_block(self, start_date, block, stop_date, reverse, overwrite) ==
    LET r == InsertLoop([self |-> self, go |-> TRUE, raised |-> FALSE],
                        0, Len(block) - 1, start_date,
                        IF reverse THEN reversed(block) ELSE block,
                        stop_date, reverse, overwrite)
    IN [self |-> r.self, raised |-> r.raised]

\* ------------------------------------------------------ anchor dates
\* dateutil.easter.easter(year), the western method
easter(y) ==
    LET g == y % 19
        c == y \div 100
        h == (c - (c \div 4) - ((8 * c + 13) \div 25) + 19 * g + 15) % 30
        i == h - (h \div 28) * (1 - (h \div 28) * (29 \div (h + 1)) * ((21 - g) \div 11))
        j == (y + (y \div 4) + i + 2 - c + (c \div 4)) % 7
        p == i - j
        d == 1 + ((p + 27 + ((p + 6) \div 40)) % 31)
        m == 3 + ((p + 26) \div 30)
    IN date(y, m, d)

_calc_varday__dom_ressurectionis(y) == easter(y)

\* _calc_varday__dom_sanctae_familiae without the step past a Sunday Jan 6
_calc_varday__dom_sanctae_familiae_OnOrAfter(y) ==
    LET d == date(y, 1, 6)
        wd == weekday(d)
    IN d + (6 - wd)

_calc_varday__dom_sanctae_familiae(y) ==
    LET d == date(y, 1, 6)
        wd == weekday(d)
        delta == IF wd < 6 THEN 6 - wd ELSE 7
    IN d + delta

_calc_varday__dom_septuagesima(y) == _calc_varday__dom_ressurectionis(y) - 63

\* _calc_varday__dom_adventus counting the days to Sunday one too many
_calc_varday__dom_adventus_OffByOne(y) ==
    LET d == date(y, 11, 27)
        wd == weekday(d)
    IN IF wd # 6 THEN d + (7 - wd) ELSE d

_calc_varday__dom_adventus(y) ==
    LET d == date(y, 11, 27)
        wd == weekday(d)
    IN IF wd # 6 THEN d + (6 - wd) ELSE d

_calc_varday__dom_post_pentecost_24(y) == _calc_varday__dom_adventus(y) - 7

_calc_varday__sab_before_dom_post_pentecost_24(y) ==
    _calc_varday__dom_post_pentecost_24(y) - 1

RECURSIVE QuattourLoop(_)
QuattourLoop(d) ==
    IF MonthOf(d) = 9
    THEN IF weekday(d) = 6 /\ 15 <= DayOf(d) /\ DayOf(d) <= 21
         THEN d
         ELSE QuattourLoop(d + 1)
    ELSE d

_calc_varday__quattour_septembris(y) == QuattourLoop(date(y, 9, 1)) + 3

RECURSIVE NominisLoop(_, _)
NominisLoop(d, y) ==
    IF DayOf(d) <= 7
    THEN LET wd == weekday(d)
         IN IF DayOf(d) \in {1, 6, 7} /\ wd = 6 THEN date(y, 1, 2)
            ELSE IF wd = 6 THEN d
            ELSE NominisLoop(d + 1, y)
    ELSE None

_calc_varday__sanctissimi_nominis_jesu(y) == NominisLoop(date(y, 1, 1), y)

RECURSIVE RegisLoop(_)
RegisLoop(d) ==
    IF MonthOf(d) = 10
    THEN IF weekday(d) = 6 THEN d ELSE RegisLoop(d - 1)
    ELSE None

_calc_varday__jesu_christi_regis(y) == RegisLoop(date(y, 10, 31))

RECURSIVE OctavamLoop(_, _)
OctavamLoop(d, y) ==
    IF YearOf(d) = y
    THEN IF weekday(d) = 6 THEN d ELSE OctavamLoop(d + 1, y)
    ELSE None

_calc_varday__dom_octavam_nativitatis(y) == OctavamLoop(date(y, 12, 27), y)

_calc_fixday__11_02_omnium_fidelium_defunctorum(y) ==
    LET d == date(y, 11, 2)
    IN IF weekday(d) = 6 THEN date(y, 11, 3) ELSE d

_calc_fixday__02_24_matthiae_apostoli(y) ==
    IF ~isleap(y) THEN date(y, 2, 24) ELSE date(y, 2, 25)

_calc_fixday__02_27(y) ==
    IF ~isleap(y) THEN date(y, 2, 27) ELSE date(y, 2, 28)

\* -------------------------------------------------- _fill_in_fixed_days
\* "%02d"
TwoDigits(n) ==
    << "00", "01", "02", "03", "04", "05", "06", "07", "08", "09",
       "10", "11", "12", "13", "14", "15", "16", "17", "18", "19",
       "20", "21", "22", "23", "24", "25", "26", "27", "28", "29",
       "30", "31" >>[n + 1]

\* date_.strftime("%m_%d")
strftime_m_d(d) == <<TwoDigits(MonthOf(d)), TwoDigits(DayOf(d))>>

\* str.startswith / re.match of a plain pattern: the pattern is a prefix
startswith(id, prefix) ==
    Len(id) >= Len(prefix) /\ SubSeq(id, 1, Len(prefix)) = prefix

\* the LiturgicalDay objects of the table's entries for date_, in table order
FixedOf(c, date_) ==
    LET t == FIXDAYS(c)
        pre == <<"fix">> \o strftime_m_d(date_)
        hit == SelectSeq([i \in 1..Len(t) |-> i], LAMBDA i : startswith(t[i].id, pre))
    IN [k \in 1..Len(hit) |-> LiturgicalDay(t[hit[k]], date_)]

SeqRange(l) == {l[i] : i \in 1..Len(l)}

\* the lists a set can be iterated as
Enumerations(S) ==
    {l \in [1..Cardinality(S) -> S] : \A i, j \in 1..Cardinality(S) : i # j => l[i] # l[j]}

\* the dates of the dict whose set of fixed days has more than one element
ManyFixed(self, c) ==
    {d \in DOMAIN self.val : Cardinality(SeqRange(FixedOf(c, d))) > 1}

\* the iteration orders of those sets: one list for each such date
SetOrders(self, c) ==
    LET M == ManyFixed(self, c)
    IN {f \in [M -> UNION {Enumerations(SeqRange(FixedOf(c, d))) : d \in M}] :
            \A d \in M : SeqRange(f[d]) = SeqRange(FixedOf(c, d))}

\* list(set(...)): `order` gives the iteration order where there is a choice
list_set(l, d, order) ==
    IF Cardinality(SeqRange(l)) > 1 THEN order[d]
    ELSE IF l = <<>> THEN <<>> ELSE <<l[1]>>

\* _fill_in_fixed_days without contents.sort(reverse=True)
_fill_in_fixed_days_Unsorted(self, c, order) ==
    [self EXCEPT !.val =
        [date_ \in DOMAIN self.val |->
            self.val[date_] \o list_set(FixedOf(c, date_), date_, order)]]

_fill_in_fixed_days(self, c, order) ==
    [self EXCEPT !.val =
        [date_ \in DOMAIN self.val |->
            sort_reverse(self.val[date_] \o list_set(FixedOf(c, date_), date_, order))]]

\* ---------------------------------------------- _fill_in_semi_fixed_days
\* self[day].append(LiturgicalDay(day_id, day)); self[day].sort(reverse=True)
AppendSorted(self, day_id, day) ==
    [self EXCEPT !.val[day] =
        sort_reverse(Append(GetItem(self, day), LiturgicalDay(day_id, day)))]

\* --------------------------------------------------- _resolve_concurrency
patterm__var_dom_adventus == <<"var", "dom_adventus">>

\* ResolveDay without the test for a Sunday
ResolveDay_AnyWeekday(day, lit_days) ==
    LET lit_days_ids == {lit_days[i].id : i \in 1..Len(lit_days)}
    IN IF FIX_12_08_CONCEPTIONE_IMMACULATA_BMV \in lit_days_ids
       THEN SelectSeq(lit_days,
                LAMBDA ld : startswith(ld.id, FIX_12_08_CONCEPTIONE_IMMACULATA_BMV))
            \o SelectSeq(lit_days,
                LAMBDA ld : startswith(ld.id, patterm__var_dom_adventus))
       ELSE lit_days

ResolveDay(day, lit_days) ==
    LET lit_days_ids == {lit_days[i].id : i \in 1..Len(lit_days)}
    IN IF FIX_12_08_CONCEPTIONE_IMMACULATA_BMV \in lit_days_ids /\ weekday(day) = 6
       THEN SelectSeq(lit_days,
                LAMBDA ld : startswith(ld.id, FIX_12_08_CONCEPTIONE_IMMACULATA_BMV))
            \o SelectSeq(lit_days,
                LAMBDA ld : startswith(ld.id, patterm__var_dom_adventus))
       ELSE lit_days

_resolve_concurrency(self) ==
    [self EXCEPT !.val = [day \in DOMAIN self.val |-> ResolveDay(day, self.val[day])]]

\* ------------------------------------------------------------ Missal(year)
NoCall ==
    [start_date |-> None, block |-> <<>>, stop_date |-> None,
     reverse |-> FALSE, overwrite |-> TRUE, raised |-> FALSE]

\* super(Missal, self).__init__(): an empty OrderedDict
Init ==
    /\ year \in Years
    /\ catalog \in Catalogs
    /\ pc = "init"
    /\ missal = EmptyDict
    /\ before = EmptyDict
    /\ call = NoCall
    /\ ncalls = 0

BuildEmptyMissal ==
    /\ pc = "init"
    /\ missal' = _build_empty_missal(missal, year)
    /\ before' = missal
    /\ pc' = "built"
    /\ UNCHANGED <<year, catalog, call, ncalls>>

\* one self._insert_block(...) of _fill_in_variable_days; a KeyError leaves
\* __init__
InsertCall(start_date, block, stop_date, reverse, overwrite, to) ==
    LET r == _insert_block(missal, start_date, block, stop_date, reverse, overwrite)
    IN /\ missal' = r.self
       /\ before' = missal
       /\ call' = [start_date |-> start_date, block |-> block,
                   stop_date |-> stop_date, reverse |-> reverse,
                   overwrite |-> overwrite, raised |-> r.raised]
       /\ pc' = IF r.raised THEN "raised" ELSE to
       /\ UNCHANGED <<year, catalog, ncalls>>

InsertPostEpiphania ==
    /\ pc = "built"
    /\ InsertCall(_calc_varday__dom_sanctae_familiae(year),
                  VARDAYS__POST_EPIPHANIA(catalog), None, FALSE, TRUE,
                  "post_epiphania")

InsertRessurectionis ==
    /\ pc = "post_epiphania"
    /\ InsertCall(_calc_varday__dom_septuagesima(year),
                  VARDAYS__RESSURECTIONIS(catalog), None, FALSE, TRUE,
                  "ressurectionis")

InsertPostEpiphaniaReverse ==
    /\ pc = "ressurectionis"
    /\ InsertCall(_calc_varday__sab_before_dom_post_pentecost_24(year),
                  VARDAYS__POST_EPIPHANIA(catalog), None, TRUE, FALSE,
                  "post_epiphania_reverse")

InsertHebdPostPentecost24 ==
    /\ pc = "post_epiphania_reverse"
    /\ InsertCall(_calc_varday__dom_post_pentecost_24(year),
                  VARDAYS__HEBD_POST_PENTECOST_24(catalog), None, FALSE, TRUE,
                  "hebd_post_pentecost_24")

InsertAdvent ==
    /\ pc = "hebd_post_pentecost_24"
    /\ InsertCall(_calc_varday__dom_adventus(year),
                  VARDAYS__ADVENT(catalog), date(year, 12, 23), FALSE, TRUE,
                  "advent")

InsertSanctissimiNominisJesu ==
    /\ pc = "advent"
    /\ InsertCall(_calc_varday__sanctissimi_nominis_jesu(year),
                  VARDAYS__SANCTISSIMI_NOMINIS_JESU(catalog), None, FALSE, TRUE,
                  "sanctissimi_nominis_jesu")

InsertQuattourSeptembris ==
    /\ pc = "sanctissimi_nominis_jesu"
    /\ InsertCall(_calc_varday__quattour_septembris(year),
                  VARDAYS__QUATTOUR_SEPTEMBRIS(catalog), None, FALSE, TRUE,
                  "quattour_septembris")

InsertJesuChristiRegis ==
    /\ pc = "quattour_septembris"
    /\ InsertCall(_calc_varday__jesu_christi_regis(year),
                  VARDAYS__JESU_CHRISTI_REGIS(catalog), None, FALSE, TRUE,
                  "jesu_christi_regis")

\* if self._calc_varday__dom_octavam_nativitatis(year): self._insert_block(...)
InsertDomOctavamNativitatis ==
    /\ pc = "jesu_christi_regis"
    /\ IF _calc_varday__dom_octavam_nativitatis(year) # None
       THEN InsertCall(_calc_varday__dom_octavam_nativitatis(year),
                       VARDAYS__DOM_OCTAVAM_NATIVITATIS(catalog), None, FALSE, TRUE,
                       "dom_octavam_nativitatis")
       ELSE /\ pc' = "dom_octavam_nativitatis"
            /\ call' = NoCall
            /\ before' = missal
            /\ UNCHANGED <<year, catalog, missal, ncalls>>

\* the iteration order of each date's set of fixed days is the build's choice
FillInFixedDays ==
    /\ pc = "dom_octavam_nativitatis"
    /\ \E order \in SetOrders(missal, catalog) :
            missal' = _fill_in_fixed_days(missal, catalog, order)
    /\ before' = missal
    /\ pc' = "fixed"
    /\ UNCHANGED <<year, catalog, call, ncalls>>

SemiFixed(from, to, day_id, day) ==
    /\ pc = from
    /\ missal' = AppendSorted(missal, day_id, day)
    /\ before' = missal
    /\ pc' = to
    /\ UNCHANGED <<year, catalog, call, ncalls>>

FillInOmniumFideliumDefunctorum ==
    SemiFixed("fixed", "semi_11_02", FIX_11_02_OMNIUM_FIDELIUM_DEFUNCTORUM,
              _calc_fixday__11_02_omnium_fidelium_defunctorum(year))

FillInMatthiaeApostoli ==
    SemiFixed("semi_11_02", "semi_02_24", FIX_02_24_MATTHIAE_APOSTOLI,
              _calc_fixday__02_24_matthiae_apostoli(year))

FillIn0227 ==
    SemiFixed("semi_02_24", "semi_02_27", FIX_02_27_1, _calc_fixday__02_27(year))

ResolveConcurrency ==
    /\ pc = "semi_02_27"
    /\ missal' = _resolve_concurrency(missal)
    /\ before' = missal
    /\ pc' = "done"
    /\ UNCHANGED <<year, catalog, call, ncalls>>

Next ==
    \/ BuildEmptyMissal
    \/ InsertPostEpiphania
    \/ InsertRessurectionis
    \/ InsertPostEpiphaniaReverse
    \/ InsertHebdPostPentecost24
    \/ InsertAdvent
    \/ InsertSanctissimiNominisJesu
    \/ InsertQuattourSeptembris
    \/ InsertJesuChristiRegis
    \/ InsertDomOctavamNativitatis
    \/ FillInFixedDays
    \/ FillInOmniumFideliumDefunctorum
    \/ FillInMatthiaeApostoli
    \/ FillIn0227
    \/ ResolveConcurrency

Spec == Init /\ [][Next]_vars

\* ------------------------------------------ _insert_block, call by call
\* The Missal of MinYear right after _build_empty_missal, then up to MaxCalls
\* calls of _insert_block with arguments from small sets: start dates at both
\* ends of the year, blocks of up to three offsets, with and without a stop
\* date, forward and backward, overwriting or not.
UnitStarts(y) == {date(y, 1, 1), date(y, 1, 3), date(y, 1, 4), date(y, 12, 30)}

UnitStops(start_date) == {None, start_date + 1}

UnitBlocks ==
    { << <<Var("f5_post_epiphania", 6, 4)>>,
         <<Var("f6_post_epiphania", 6, 4)>>,
         <<Var("sab_post_epiphania", 6, 4)>> >>,
      << <<Var("f4_quattuor_septembris", 1, 2)>>,
         <<>>,
         <<Var("f6_quattuor_septembris", 1, 2)>> >>,
      << <<Var("dom_adventus", 2, 1), Var("f2_hebd", 1, 4)>> >> }

InitBlock ==
    /\ year = MinYear
    /\ catalog = "plain"
    /\ pc = "unit"
    /\ missal = _build_empty_missal(EmptyDict, MinYear)
    /\ before = _build_empty_missal(EmptyDict, MinYear)
    /\ call = NoCall
    /\ ncalls = 0

InsertBlockCall ==
    /\ pc = "unit"
    /\ ncalls < MaxCalls
    /\ \E start_date \in UnitStarts(year), block \in UnitBlocks,
          reverse \in BOOLEAN, overwrite \in BOOLEAN :
         \E stop_date \in UnitStops(start_date) :
            LET r == _insert_block(missal, start_date, block, stop_date,
                                   reverse, overwrite)
            IN /\ missal' = r.self
               /\ call' = [start_date |-> start_date, block |-> block,
                           stop_date |-> stop_date, reverse |-> reverse,
                           overwrite |-> overwrite, raised |-> r.raised]
    /\ before' = missal
    /\ ncalls' = ncalls + 1
    /\ UNCHANGED <<year, catalog, pc>>

NextBlock == InsertBlockCall

SpecBlock == InitBlock /\ [][NextBlock]_vars

\* Missal(year), and the calls of _insert_block one by one
InitAll == Init \/ InitBlock

NextAll == Next \/ NextBlock

SpecAll == InitAll /\ [][NextAll]_vars

\* ------------------------------------------------- the whole computation
\* _fill_in_variable_days as one function: the calls in order, none after a
\* KeyError
ThenInsert(r, start_date, block, stop_date, reverse, overwrite) ==
    IF r.raised THEN r
    ELSE _insert_block(r.self, start_date, block, stop_date, reverse, overwrite)

_fill_in_variable_days(self, y, c) ==
    LET r0 == [self |-> self, raised |-> FALSE]
        r1 == ThenInsert(r0, _calc_varday__dom_sanctae_familiae(y),
                         VARDAYS__POST_EPIPHANIA(c), None, FALSE, TRUE)
        r2 == ThenInsert(r1, _calc_varday__dom_septuagesima(y),
                         VARDAYS__RESSURECTIONIS(c), None, FALSE, TRUE)
        r3 == ThenInsert(r2, _calc_varday__sab_before_dom_post_pentecost_24(y),
                         VARDAYS__POST_EPIPHANIA(c), None, TRUE, FALSE)
        r4 == ThenInsert(r3, _calc_varday__dom_post_pentecost_24(y),
                         VARDAYS__HEBD_POST_PENTECOST_24(c), None, FALSE, TRUE)
        r5 == ThenInsert(r4, _calc_varday__dom_adventus(y),
                         VARDAYS__ADVENT(c), date(y, 12, 23), FALSE, TRUE)
        r6 == ThenInsert(r5, _calc_varday__sanctissimi_nominis_jesu(y),
                         VARDAYS__SANCTISSIMI_NOMINIS_JESU(c), None, FALSE, TRUE)
        r7 == ThenInsert(r6, _calc_varday__quattour_septembris(y),
                         VARDAYS__QUATTOUR_SEPTEMBRIS(c), None, FALSE, TRUE)
        r8 == ThenInsert(r7, _calc_varday__jesu_christi_regis(y),
                         VARDAYS__JESU_CHRISTI_REGIS(c), None, FALSE, TRUE)
    IN IF _calc_varday__dom_octavam_nativitatis(y) # None
       THEN ThenInsert(r8, _calc_varday__dom_octavam_nativitatis(y),
                       VARDAYS__DOM_OCTAVAM_NATIVITATIS(c), None, FALSE, TRUE)
       ELSE r8

_fill_in_semi_fixed_days(self, y) ==
    LET a == AppendSorted(self, FIX_11_02_OMNIUM_FIDELIUM_DEFUNCTORUM,
                          _calc_fixday__11_02_omnium_fidelium_defunctorum(y))
        b == AppendSorted(a, FIX_02_24_MATTHIAE_APOSTOLI,
                          _calc_fixday__02_24_matthiae_apostoli(y))
    IN AppendSorted(b, FIX_02_27_1, _calc_fixday__02_27(y))

\* Missal(year) with every set of fixed days iterated as `order` says
Missal(y, c, order) ==
    LET v == _fill_in_variable_days(_build_empty_missal(EmptyDict, y), y, c).self
    IN _resolve_concurrency(
           _fill_in_semi_fixed_days(_fill_in_fixed_days(v, c, order), y))

\* ======================================================================
\* Properties
\* ======================================================================
Keys(self) == DOMAIN self.val

Sorted(l) == \A i, j \in 1..Len(l) : i < j => l[i].rank >= l[j].rank

IdsOf(l) == {l[i].id : i \in 1..Len(l)}

Min(S) == CHOOSE x \in S : \A z \in S : x <= z

YearLength(y) == IF isleap(y) THEN 366 ELSE 365

\* the last _insert_block call, as the state records it
Offsets == 0..(Len(call.block) - 1)
CallBlock == IF call.reverse THEN reversed(call.block) ELSE call.block
Target(ii) == call.start_date + (IF call.reverse THEN 0 - ii ELSE ii)
Entries(ii) ==
    [k \in 1..Len(CallBlock[ii + 1]) |-> LiturgicalDay(CallBlock[ii + 1][k], Target(ii))]
Called == pc = "unit" /\ ncalls > 0

\* C1: after every stage of Missal(Y), and after every call of _insert_block,
\* the keys are exactly Jan 1 .. Dec 31 of Y in ascending order, 365 of them
\* or 366 in a leap year, each once.
C1_KeysAreTheYear ==
    pc # "init" =>
        /\ missal.keys = [i \in 1..YearLength(year) |-> date(year, 1, 1) + i - 1]
        /\ missal.keys[Len(missal.keys)] = date(year, 12, 31)
        /\ Keys(missal) = {missal.keys[i] : i \in 1..Len(missal.keys)}

\* a call of _insert_block has written dates of a leap year and then reached
\* a date outside it
C1_Witness ==
    /\ Called
    /\ call.raised
    /\ \E ii \in Offsets : CallBlock[ii + 1] # <<>> /\ Target(ii) \notin Keys(before)
    /\ missal # before
    /\ Len(missal.keys) = 366

\* C2 as claimed, of the calls that end without a KeyError: without
\* overwrite, placement stops at the first offset whose target date holds a
\* non-empty list; every earlier offset's date is filled, that date and the
\* later offsets' dates are as before, and no list that was non-empty is
\* changed.
NonEmptyAt ==
    {ii \in Offsets : Target(ii) \in Keys(before) /\ before.val[Target(ii)] # <<>>}

C2_Original ==
    (Called /\ ~call.overwrite /\ ~call.raised /\ NonEmptyAt # {}) =>
        LET k == Min(NonEmptyAt)
        IN /\ \A ii \in Offsets :
                (ii < k /\ Target(ii) \in Keys(missal)) => missal.val[Target(ii)] # <<>>
           /\ \A ii \in Offsets :
                (ii >= k /\ Target(ii) \in Keys(missal)) =>
                    missal.val[Target(ii)] = before.val[Target(ii)]
           /\ \A d \in Keys(before) :
                before.val[d] # <<>> => missal.val[d] = before.val[d]

\* C2 amended: without overwrite, placement stops at the first offset with a
\* non-empty identifier-set whose target date holds a non-empty list, or is
\* no key of the calendar, or has no key for the day before it (the last two
\* raise KeyError).  Every earlier offset with a non-empty identifier-set had
\* an empty date, which now holds exactly that offset's entries; every other
\* date is as it was before the call.
StopsAt ==
    {ii \in Offsets :
        /\ CallBlock[ii + 1] # <<>>
        /\ \/ Target(ii) \notin Keys(before)
           \/ before.val[Target(ii)] # <<>>
           \/ Target(ii) - 1 \notin Keys(before)}

StopOffset == IF StopsAt = {} THEN Len(call.block) ELSE Min(StopsAt)

Placed == {ii \in Offsets : ii < StopOffset /\ CallBlock[ii + 1] # <<>>}

C2_Amended ==
    (Called /\ ~call.overwrite) =>
        /\ Keys(missal) = Keys(before)
        /\ \A d \in Keys(before) :
            IF \E ii \in Placed : Target(ii) = d
            THEN /\ before.val[d] = <<>>
                 /\ \A ii \in Placed : Target(ii) = d => missal.val[d] = Entries(ii)
            ELSE missal.val[d] = before.val[d]
        /\ call.raised <=>
            /\ StopsAt # {}
            /\ \/ Target(StopOffset) \notin Keys(before)
               \/ /\ before.val[Target(StopOffset)] = <<>>
                  /\ Target(StopOffset) - 1 \notin Keys(before)

\* a call without overwrite that filled an empty date and then stopped at a
\* date that held entries
C2_Witness ==
    /\ Called
    /\ ~call.overwrite
    /\ ~call.raised
    /\ Placed # {}
    /\ StopsAt # {}
    /\ before.val[Target(StopOffset)] # <<>>
    /\ missal # before

\* C3: a call with a stop_date writes no date later than stop_date.
C3_StopDateHalts ==
    (Called /\ call.stop_date # None) =>
        \A d \in Keys(before) :
            d > call.stop_date => missal.val[d] = before.val[d]

\* C4: a block of non-empty identifier-sets placed with overwrite and no
\* stop_date on dates of the calendar: forward, the set at offset i is on
\* start_date + i; backward, the last set is on start_date and the set at
\* offset i on start_date - (n - 1 - i); each date holds exactly that set's
\* entries.
C4_BlockLandsInOrder ==
    (/\ Called
     /\ call.overwrite
     /\ call.stop_date = None
     /\ \A i \in Offsets : call.block[i + 1] # <<>>
     /\ \A i \in Offsets : Target(i) \in Keys(before)) =>
        \A i \in Offsets :
            LET n == Len(call.block)
                d == IF call.reverse
                     THEN call.start_date - (n - 1 - i)
                     ELSE call.start_date + i
            IN missal.val[d] =
                 [k \in 1..Len(call.block[i + 1]) |-> LiturgicalDay(call.block[i + 1][k], d)]

\* the first of each element of l, in l's order
Dedup(l) ==
    LET first == SelectSeq([i \in 1..Len(l) |-> i],
                           LAMBDA i : \A j \in 1..(i - 1) : l[j] # l[i])
    IN [k \in 1..Len(first) |-> l[first[k]]]

TableOrder(self, c) == [d \in ManyFixed(self, c) |-> Dedup(FixedOf(c, d))]

\* C5: the finished calendar is a function of the year and the catalogs: it
\* is what the computation gives with every set iterated in table order,
\* whatever order the sets were iterated in.
C5_Deterministic ==
    pc = "done" =>
        missal = Missal(year, catalog,
                        TableOrder(_build_empty_missal(EmptyDict, year), catalog))

\* C6 as claimed: every list a stage has changed is sorted in descending rank
\* order, the lists _insert_block writes included.
C6_Original ==
    pc \notin {"init", "unit", "built"} =>
        \A d \in Keys(missal) :
            missal.val[d] # before.val[d] => Sorted(missal.val[d])

\* C6 amended: after every mutation of a date's list other than a write of
\* _insert_block (the fixed-date overlay, each semi-fixed insertion, and the
\* replacement done by _resolve_concurrency) every date's list is sorted in
\* descending rank order.
C6_Amended ==
    pc \in {"fixed", "semi_11_02", "semi_02_24", "semi_02_27", "done"} =>
        \A d \in Keys(missal) : Sorted(missal.val[d])

\* the overlay's sort has moved a fixed day before a movable one
C6_Witness ==
    /\ pc = "fixed"
    /\ \E d \in Keys(missal) :
        /\ Len(missal.val[d]) >= 2
        /\ missal.val[d][1].id[1] = "fix"
        /\ missal.val[d][2].id[1] = "var"
        /\ missal.val[d][1].rank > missal.val[d][2].rank
        /\ before.val[d] = <<missal.val[d][2]>>

\* C7 as claimed: Holy Family Sunday is the first Sunday on or after Jan 6,
\* Jan 6 itself when that is a Sunday.
C7_Original ==
    pc = "post_epiphania" =>
        /\ weekday(call.start_date) = 6
        /\ date(year, 1, 6) <= call.start_date
        /\ call.start_date <= date(year, 1, 12)
        /\ weekday(date(year, 1, 6)) = 6 => call.start_date = date(year, 1, 6)

\* C7 amended: Holy Family Sunday is the first Sunday after Jan 6: a Sunday
\* in Jan 7 .. Jan 13, Jan 13 when Jan 6 is a Sunday.
C7_Amended ==
    pc = "post_epiphania" =>
        /\ weekday(call.start_date) = 6
        /\ date(year, 1, 7) <= call.start_date
        /\ call.start_date <= date(year, 1, 13)
        /\ weekday(date(year, 1, 6)) = 6 => call.start_date = date(year, 1, 13)

C7_Witness ==
    /\ pc = "post_epiphania"
    /\ weekday(date(year, 1, 6)) = 6
    /\ call.start_date = date(year, 1, 13)
    /\ missal.val[date(year, 1, 13)] # <<>>

\* C8: the Sunday within the Christmas octave is the Sunday in Dec 26 .. Dec
\* 31 when there is one, and None exactly when there is none.
C8_SundayOfTheOctave ==
    pc = "dom_octavam_nativitatis" =>
        LET S == {d \in date(year, 12, 26)..date(year, 12, 31) : weekday(d) = 6}
        IN IF S # {} THEN call.start_date \in S ELSE call.start_date = None

\* C9: the first Advent Sunday is a Sunday in Nov 27 .. Dec 3, Nov 27 when
\* that is a Sunday; the 24th Sunday after Pentecost is the Sunday 7 days
\* before it.
FirstSundayFrom(d0) == Min({d \in d0..(d0 + 6) : weekday(d) = 6})

C9_AdventSunday ==
    /\ pc = "advent" =>
        /\ weekday(call.start_date) = 6
        /\ date(year, 11, 27) <= call.start_date
        /\ call.start_date <= date(year, 12, 3)
        /\ weekday(date(year, 11, 27)) = 6 => call.start_date = date(year, 11, 27)
    /\ pc = "hebd_post_pentecost_24" =>
        /\ weekday(call.start_date) = 6
        /\ call.start_date + 7 = FirstSundayFrom(date(year, 11, 27))

C9_Witness ==
    /\ pc = "advent"
    /\ weekday(date(year, 11, 27)) = 6
    /\ call.start_date = date(year, 11, 27)
    /\ missal.val[date(year, 11, 27)][1].id = <<"var", "dom_adventus", "1">>

\* C10: after _resolve_concurrency a list that was non-empty is non-empty; a
\* date where the Immaculate Conception rule does not match keeps its list;
\* a date where it matches keeps the Immaculate Conception entry, followed
\* only by Advent Sunday entries, all of them entries it had.
RuleMatches(d) ==
    /\ FIX_12_08_CONCEPTIONE_IMMACULATA_BMV \in IdsOf(before.val[d])
    /\ weekday(d) = 6

C10_ResolveKeepsDays ==
    pc = "done" =>
        \A d \in Keys(before) :
            LET l == missal.val[d]
            IN /\ before.val[d] # <<>> => l # <<>>
               /\ ~RuleMatches(d) => l = before.val[d]
               /\ RuleMatches(d) =>
                    /\ \E k \in 1..Len(l) :
                         /\ \A i \in 1..k :
                              startswith(l[i].id, FIX_12_08_CONCEPTIONE_IMMACULATA_BMV)
                         /\ \A i \in (k + 1)..Len(l) :
                              startswith(l[i].id, patterm__var_dom_adventus)
                    /\ \A i \in 1..Len(l) :
                         l[i] \in SeqRange(before.val[d]) /\ l[i].day = d

\* the rule matched and dropped an entry of the date
C10_Witness ==
    /\ pc = "done"
    /\ \E d \in Keys(before) :
        /\ RuleMatches(d)
        /\ Len(missal.val[d]) < Len(before.val[d])
        /\ Len(missal.val[d]) = 2
====
